---------------------------- MODULE Spec2Model ----------------------------
(***************************************************************************)
(* Blog CRUD service: routes/blogRoutes.js (the five handlers and the      *)
(* validateBlog chain) over the Blog model (schema setters, defaults and   *)
(* the pre('save') / pre('findOneAndUpdate') hooks).                       *)
(*                                                                         *)
(* Text is a sequence of characters.  A handler runs up to its `await`     *)
(* in one step; the storage command it awaits is applied by the storage    *)
(* layer in a later step, so the commands of different requests            *)
(* interleave and are applied in any order.  A read or a delete has no     *)
(* effect before its command is applied, so its handler is one step.       *)
(* Date.now() is the variable clock: it never goes backwards and has       *)
(* millisecond resolution, so several calls may read the same value.       *)
(***************************************************************************)
EXTENDS Integers, Sequences, FiniteSets, TLC

VARIABLES
  blogs,     \* the stored Blog documents
  nextId,    \* the next ObjectId the process generates
  clock,     \* Date.now()
  inflight,  \* documents being saved and storage commands not yet applied
  resp,      \* the response the last step sent, NoResp if it sent none
  listed,    \* history: the order of the last listing since the last create or
             \* delete, and whether an update was applied since that listing
  origin,    \* history: per id, the request whose write the storage layer applied last
  deleted    \* history: the ids DELETE has removed

vars == <<blogs, nextId, clock, inflight, resp, listed, origin, deleted>>

(* ------------------------------ bounds --------------------------------- *)
\* ObjectIds the process generates
MaxId == 1
\* ObjectIds the process generates where several entities are needed
MaxEntities == 2
\* the largest Date.now() reading
MaxClock == 1
\* documents being saved and storage commands awaiting the storage layer
MaxInFlight == 2
\* the same, in the runs about inputs and listings
MaxPending == 1

(* --------------------------- program constants ------------------------- *)
MaxTitle == 100
MaxAuthor == 50

(* ------------------------------- text ---------------------------------- *)
Rep(c, n) == [i \in 1..n |-> c]

IsSpace(c) == c = " "

RECURSIVE LTrim(_)
LTrim(s) == IF s = <<>> THEN s
            ELSE IF IsSpace(Head(s)) THEN LTrim(Tail(s)) ELSE s

RECURSIVE RTrim(_)
RTrim(s) == IF s = <<>> THEN s
            ELSE IF IsSpace(s[Len(s)]) THEN RTrim(SubSeq(s, 1, Len(s) - 1)) ELSE s

\* String.prototype.trim and the validator's trim(): both ends
Trim(s) == RTrim(LTrim(s))

(* --------------------------- request bodies ---------------------------- *)
\* req.body.tags: absent, an array of JSON values, or another JSON value
NoTags == [kind |-> "absent", items |-> <<>>]
TagArray(items) == [kind |-> "array", items |-> items]
NotArrayTags == [kind |-> "other", items |-> <<>>]

\* JSON values inside a tags array: text, a number (v is its decimal form),
\* a plain object
Str(s) == [k |-> "str", v |-> s]
Num(s) == [k |-> "num", v |-> s]
Obj == [k |-> "obj", v |-> <<>>]

Body(t, c, a, g) == [title |-> t, content |-> c, author |-> a, tags |-> g]

NoBody == Body(<<>>, <<>>, <<>>, NoTags)

A == <<"a">>

Plain == Body(A, A, A, NoTags)

\* surrounding whitespace everywhere; title and author at their limits once trimmed
Padded ==
  Body(<<" ">> \o Rep("a", MaxTitle) \o <<" ">>, <<"b", " ">>,
       <<" ">> \o Rep("b", MaxAuthor), TagArray(<<Str(<<" ", "b">>), Str(<<"b", " ">>)>>))

NumberTag == Body(A, A, A, TagArray(<<Num(<<"1">>)>>))
ObjectTag == Body(A, A, A, TagArray(<<Str(A), Obj>>))

Bodies ==
  { Plain, Padded, NumberTag, ObjectTag,
    Body(<<" ">>, A, A, NoTags),
    Body(Rep("a", MaxTitle + 1), A, A, TagArray(<<>>)),
    Body(A, <<" ", " ">>, A, NoTags),
    Body(A, A, <<>>, NoTags),
    Body(A, A, Rep("a", MaxAuthor + 1), TagArray(<<Str(A)>>)),
    Body(A, A, A, NotArrayTags),
    Body(<<>>, A, A, TagArray(<<Obj>>)) }

(* ------------------------------ validateBlog --------------------------- *)
FieldErrorsNoTrim(s, max, req, long) ==
  (IF s = <<>> THEN <<req>> ELSE <<>>)
  \o (IF max > 0 /\ Len(s) > max THEN <<long>> ELSE <<>>)

\* body(f).trim().notEmpty().withMessage(req).isLength({max}).withMessage(long);
\* max = 0 stands for a chain without isLength
FieldErrors(s, max, req, long) ==
  (IF Trim(s) = <<>> THEN <<req>> ELSE <<>>)
  \o (IF max > 0 /\ Len(Trim(s)) > max THEN <<long>> ELSE <<>>)

\* body("tags").optional().isArray()
TagErrors(g) ==
  IF g.kind = "absent" \/ g.kind = "array" THEN <<>> ELSE <<"Tags must be an array">>

\* the chain's sanitizers rewrite req.body; its validators collect every error
ValidateBlog(b) ==
  [ body   |-> [b EXCEPT !.title = Trim(b.title), !.content = Trim(b.content),
                         !.author = Trim(b.author)],
    errors |-> FieldErrors(b.title, MaxTitle, "Title is required",
                           "Title cannot exceed 100 characters")
               \o FieldErrors(b.content, 0, "Content is required", "")
               \o FieldErrors(b.author, MaxAuthor, "Author is required",
                              "Author name cannot exceed 50 characters")
               \o TagErrors(b.tags) ]

(* ------------------------------ Blog model ----------------------------- *)
\* req.params.id: 0 is a string that is no ObjectId, n >= 1 the n-th ObjectId
IsObjectId(p) == p >= 1

\* a JSON value cast to the schema's String: text stays, a number is
\* written out, a plain object cannot be cast
CanCast(e) == e.k # "obj"

CastStringNoTrim(e) == e.v

\* the cast value through the `trim: true` setter
CastString(e) == Trim(e.v)

\* `tags || []`
TagsOrEmpty(g) == IF g.kind = "array" THEN g.items ELSE <<>>

TagsCastable(items) == \A i \in 1..Len(items) : CanCast(items[i])

CastTags(items) == [i \in 1..Len(items) |-> CastString(items[i])]

NoDoc == [id |-> 0, title |-> <<>>, content |-> <<>>, author |-> <<>>,
          tags |-> <<>>, createdAt |-> 0, updatedAt |-> 0]

\* new Blog({title, content, author, tags: tags || []}): the schema's trim
\* setters and the Date.now defaults
NewBlog(id, b, now) ==
  [id |-> id, title |-> Trim(b.title), content |-> Trim(b.content),
   author |-> Trim(b.author), tags |-> CastTags(TagsOrEmpty(b.tags)),
   createdAt |-> now, updatedAt |-> now]

\* the schema's required and maxlength validators
SchemaValid(d) ==
  /\ d.title # <<>> /\ Len(d.title) <= MaxTitle
  /\ d.content # <<>>
  /\ d.author # <<>> /\ Len(d.author) <= MaxAuthor

PreSaveStampsCreatedAt(doc, now) == [doc EXCEPT !.createdAt = now]

\* blogSchema.pre("save")
PreSaveHook(doc, now) == [doc EXCEPT !.updatedAt = now]

UpdateSetKeepsTags(b, now) ==
  [title |-> Trim(b.title), content |-> Trim(b.content), author |-> Trim(b.author),
   tags |-> CastTags(TagsOrEmpty(b.tags)), hasTags |-> b.tags.kind = "array",
   updatedAt |-> now]

\* the update {title, content, author, tags: tags || []} after casting, with
\* pre("findOneAndUpdate")'s updatedAt; hasTags: the update carries the key
\* tags, which `tags || []` always gives it
UpdateSet(b, now) ==
  [title |-> Trim(b.title), content |-> Trim(b.content), author |-> Trim(b.author),
   tags |-> CastTags(TagsOrEmpty(b.tags)), hasTags |-> TRUE, updatedAt |-> now]

ApplySetResetsCreatedAt(d, s) ==
  [d EXCEPT !.title = s.title, !.content = s.content, !.author = s.author,
            !.tags = IF s.hasTags THEN s.tags ELSE d.tags,
            !.createdAt = s.updatedAt, !.updatedAt = s.updatedAt]

\* the update's keys set on the matched document
ApplySet(d, s) ==
  [d EXCEPT !.title = s.title, !.content = s.content, !.author = s.author,
            !.tags = IF s.hasTags THEN s.tags ELSE d.tags,
            !.updatedAt = s.updatedAt]

(* ---------------------------- storage layer ---------------------------- *)
Ids(S) == {d.id : d \in S}

\* Blog.findById: the document, NoDoc (null) if none
FindById(S, i) == IF i \in Ids(S) THEN CHOOSE d \in S : d.id = i ELSE NoDoc

FindByIdAndUpdateUpserts(S, i, s) ==
  LET new == ApplySet(IF i \in Ids(S) THEN FindById(S, i) ELSE [NoDoc EXCEPT !.id = i], s)
  IN  [doc |-> new, store |-> (S \ {FindById(S, i)}) \cup {new}]

\* Blog.findByIdAndUpdate(id, set, {new: true}) in the storage layer: one
\* atomic step on the matched document, nothing when none matches
FindByIdAndUpdate(S, i, s) ==
  IF i \in Ids(S)
  THEN LET new == ApplySet(FindById(S, i), s)
       IN  [doc |-> new, store |-> (S \ {FindById(S, i)}) \cup {new}]
  ELSE [doc |-> NoDoc, store |-> S]

\* Blog.findByIdAndDelete(id)
FindByIdAndDelete(S, i) == [doc |-> FindById(S, i), store |-> S \ {FindById(S, i)}]

Perms(S) == {s \in [1..Cardinality(S) -> S] : \A d \in S : \E i \in DOMAIN s : s[i] = d}

AscendingLists(S) ==
  {s \in Perms(S) : \A i, j \in DOMAIN s : i < j => s[i].createdAt <= s[j].createdAt}

\* what Blog.find().sort({createdAt: -1}) may return: the storage layer
\* fixes no order among documents with equal keys
SortedLists(S) ==
  {s \in Perms(S) : \A i, j \in DOMAIN s : i < j => s[i].createdAt >= s[j].createdAt}

(* ------------------------------ responses ------------------------------ *)
\* the message of a handler's 500
ErrorMessage(op) ==
  CASE op = "get" -> "Error fetching blog"
    [] op = "post" -> "Error creating blog"
    [] op = "put" -> "Error updating blog"
    [] op = "delete" -> "Error deleting blog"
    [] OTHER -> "Error fetching blogs"

CatchAlways500(op, name) ==
  [status |-> 500, msg |-> ErrorMessage(op)]

\* the handlers' catch blocks: get, put and delete answer a CastError with
\* 400, post has no such branch
Catch(op, name) ==
  IF name = "CastError" /\ op # "post"
  THEN [status |-> 400, msg |-> "Invalid blog ID"]
  ELSE [status |-> 500, msg |-> ErrorMessage(op)]

NoResp == [op |-> "none", id |-> 0, body |-> NoBody, status |-> 0, msg |-> "",
           data |-> NoDoc, list |-> <<>>, count |-> 0, prev |-> NoDoc,
           wrote |-> FALSE, issued |-> FALSE]

\* a response, with what the step that sent it did: prev is the stored
\* document the identifier matched before the step, wrote whether the step
\* changed the stored documents, issued whether it started a save or a command
Respond(op, id, b, status, msg, data) ==
  [NoResp EXCEPT !.op = op, !.id = id, !.body = b, !.status = status, !.msg = msg,
                 !.data = data, !.prev = FindById(blogs, id),
                 !.wrote = (blogs' # blogs), !.issued = (inflight' \ inflight # {})]

NoOrigin == [kind |-> "none", body |-> NoBody]

NoListing == [order |-> <<>>, updated |-> FALSE]

Key(d) == [id |-> d.id, createdAt |-> d.createdAt]

Init ==
  /\ blogs = {}
  /\ nextId = 1
  /\ clock = 0
  /\ inflight = {}
  /\ resp = NoResp
  /\ listed = NoListing
  /\ origin = [i \in 1..(MaxId + MaxEntities) |-> NoOrigin]
  /\ deleted = {}

\* res.json() is the last statement of the step that answers: the response
\* is out before any other step runs
Idle == resp = NoResp

\* the response is sent
Flush ==
  /\ resp # NoResp
  /\ resp' = NoResp
  /\ UNCHANGED <<blogs, nextId, clock, inflight, listed, origin, deleted>>

\* time passes
Tick(maxClock) ==
  /\ Idle
  /\ clock < maxClock
  /\ clock' = clock + 1
  /\ UNCHANGED <<blogs, nextId, inflight, resp, listed, origin, deleted>>

\* GET /api/blogs
List ==
  /\ Idle
  /\ UNCHANGED <<blogs, nextId, clock, inflight, origin, deleted>>
  /\ \E s \in SortedLists(blogs) :
       /\ listed' = [order |-> [i \in DOMAIN s |-> Key(s[i])], updated |-> FALSE]
       /\ resp' = [Respond("list", 0, NoBody, 200, "", NoDoc)
                     EXCEPT !.list = s, !.count = Len(s)]

\* GET /api/blogs/:id
Get(p) ==
  /\ Idle
  /\ UNCHANGED <<blogs, nextId, clock, inflight, listed, origin, deleted>>
  /\ resp' = IF ~IsObjectId(p)
             THEN LET e == Catch("get", "CastError")
                  IN  Respond("get", p, NoBody, e.status, e.msg, NoDoc)
             ELSE IF FindById(blogs, p) = NoDoc
             THEN Respond("get", p, NoBody, 404, "Blog not found", NoDoc)
             ELSE Respond("get", p, NoBody, 200, "", FindById(blogs, p))

\* POST /api/blogs up to `await blog.save()`: validation, new Blog(...),
\* and save()'s cast and schema validation
Post(b, maxId, maxFlight) ==
  LET v == ValidateBlog(b) IN
  /\ Idle
  /\ IF v.errors # <<>>
     THEN /\ UNCHANGED <<blogs, nextId, clock, inflight, listed, origin, deleted>>
          /\ resp' = Respond("post", 0, b, 400, "Validation failed", NoDoc)
     ELSE /\ nextId <= maxId
          /\ nextId' = nextId + 1
          /\ UNCHANGED <<blogs, clock, listed, origin, deleted>>
          /\ IF ~TagsCastable(TagsOrEmpty(v.body.tags))
                \/ ~SchemaValid(NewBlog(nextId, v.body, clock))
             THEN /\ UNCHANGED inflight
                  /\ resp' = LET e == Catch("post", "ValidationError")
                             IN  Respond("post", 0, b, e.status, e.msg, NoDoc)
             ELSE /\ Cardinality(inflight) < maxFlight
                  /\ inflight' = inflight \cup
                       {[op |-> "save", id |-> nextId, body |-> b,
                         doc |-> NewBlog(nextId, v.body, clock), set |-> UpdateSet(NoBody, 0)]}
                  /\ UNCHANGED resp

\* save() goes on: the pre("save") hook runs and the insert is sent
PreSave(m) ==
  /\ Idle
  /\ m \in inflight /\ m.op = "save"
  /\ inflight' = (inflight \ {m}) \cup
       {[m EXCEPT !.op = "insert", !.doc = PreSaveHook(m.doc, clock)]}
  /\ UNCHANGED <<blogs, nextId, clock, resp, listed, origin, deleted>>

\* the storage layer applies the insert and POST answers 201 with savedBlog
InsertApply(m) ==
  /\ Idle
  /\ m \in inflight /\ m.op = "insert"
  /\ inflight' = inflight \ {m}
  /\ blogs' = blogs \cup {m.doc}
  /\ origin' = [origin EXCEPT ![m.id] = [kind |-> "post", body |-> m.body]]
  /\ listed' = NoListing
  /\ resp' = Respond("post", m.id, m.body, 201, "Blog created successfully", m.doc)
  /\ UNCHANGED <<nextId, clock, deleted>>

\* PUT /api/blogs/:id up to `await Blog.findByIdAndUpdate(...)`: validation,
\* the pre("findOneAndUpdate") hook, the casts and the update validators
Put(p, b, maxFlight) ==
  LET v == ValidateBlog(b) IN
  /\ Idle
  /\ IF v.errors # <<>>
     THEN /\ UNCHANGED <<blogs, nextId, clock, inflight, listed, origin, deleted>>
          /\ resp' = Respond("put", p, b, 400, "Validation failed", NoDoc)
     ELSE IF ~IsObjectId(p) \/ ~TagsCastable(TagsOrEmpty(v.body.tags))
     THEN /\ UNCHANGED <<blogs, nextId, clock, inflight, listed, origin, deleted>>
          /\ resp' = LET e == Catch("put", "CastError")
                     IN  Respond("put", p, b, e.status, e.msg, NoDoc)
     ELSE IF ~SchemaValid(NewBlog(p, v.body, clock))
     THEN /\ UNCHANGED <<blogs, nextId, clock, inflight, listed, origin, deleted>>
          /\ resp' = LET e == Catch("put", "ValidationError")
                     IN  Respond("put", p, b, e.status, e.msg, NoDoc)
     ELSE /\ Cardinality(inflight) < maxFlight
          /\ inflight' = inflight \cup
               {[op |-> "update", id |-> p, body |-> b,
                 doc |-> NoDoc, set |-> UpdateSet(v.body, clock)]}
          /\ UNCHANGED <<blogs, nextId, clock, resp, listed, origin, deleted>>

\* the storage layer applies the update and PUT answers
PutApply(m) ==
  /\ Idle
  /\ m \in inflight /\ m.op = "update"
  /\ inflight' = inflight \ {m}
  /\ LET r == FindByIdAndUpdate(blogs, m.id, m.set) IN
     /\ blogs' = r.store
     /\ IF r.doc = NoDoc
        THEN /\ UNCHANGED <<origin, listed>>
             /\ resp' = Respond("put", m.id, m.body, 404, "Blog not found", NoDoc)
        ELSE /\ origin' = [origin EXCEPT ![m.id] = [kind |-> "put", body |-> m.body]]
             /\ listed' = [listed EXCEPT !.updated = listed.order # <<>>]
             /\ resp' = Respond("put", m.id, m.body, 200, "Blog updated successfully", r.doc)
  /\ UNCHANGED <<nextId, clock, deleted>>

\* DELETE /api/blogs/:id
Delete(p) ==
  /\ Idle
  /\ UNCHANGED <<nextId, clock, inflight>>
  /\ IF ~IsObjectId(p)
     THEN /\ UNCHANGED <<blogs, deleted, origin, listed>>
          /\ resp' = LET e == Catch("delete", "CastError")
                     IN  Respond("delete", p, NoBody, e.status, e.msg, NoDoc)
     ELSE LET r == FindByIdAndDelete(blogs, p) IN
          /\ blogs' = r.store
          /\ IF r.doc = NoDoc
             THEN /\ UNCHANGED <<deleted, origin, listed>>
                  /\ resp' = Respond("delete", p, NoBody, 404, "Blog not found", NoDoc)
             ELSE /\ deleted' = deleted \cup {p}
                  /\ origin' = [origin EXCEPT ![p] = NoOrigin]
                  /\ listed' = NoListing
                  /\ resp' = Respond("delete", p, NoBody, 200, "Blog deleted successfully", NoDoc)

(* --------------------------- specifications ---------------------------- *)
\* timestamps and races: one body, time passes, commands interleave
Next ==
  \/ Flush
  \/ Tick(MaxClock)
  \/ List
  \/ \E p \in 0..MaxId : Get(p)
  \/ Post(Plain, MaxId, MaxInFlight)
  \/ \E m \in inflight : PreSave(m)
  \/ \E m \in inflight : InsertApply(m)
  \/ \E p \in 0..MaxId : Put(p, Plain, MaxInFlight)
  \/ \E m \in inflight : PutApply(m)
  \/ \E p \in 0..MaxId : Delete(p)

Spec == Init /\ [][Next]_vars

\* listing: several entities, time passes
NextList ==
  \/ Flush
  \/ Tick(MaxClock)
  \/ List
  \/ \E p \in 0..MaxEntities : Get(p)
  \/ Post(Plain, MaxEntities, MaxPending)
  \/ \E m \in inflight : PreSave(m)
  \/ \E m \in inflight : InsertApply(m)
  \/ \E p \in 0..MaxEntities : Put(p, Plain, MaxPending)
  \/ \E m \in inflight : PutApply(m)
  \/ \E p \in 0..MaxEntities : Delete(p)

SpecList == Init /\ [][NextList]_vars

\* concurrent writers: two bodies that differ in every field, commands interleave
NextRace ==
  \/ Flush
  \/ \E p \in 0..MaxEntities : Get(p)
  \/ \E b \in {Plain, Padded} : Post(b, MaxEntities, MaxInFlight)
  \/ \E m \in inflight : PreSave(m)
  \/ \E m \in inflight : InsertApply(m)
  \/ \E p \in 0..MaxEntities, b \in {Plain, Padded} : Put(p, b, MaxInFlight)
  \/ \E m \in inflight : PutApply(m)
  \/ \E p \in 0..MaxEntities : Delete(p)

SpecRace == Init /\ [][NextRace]_vars

\* inputs: every body and identifier
NextInput ==
  \/ Flush
  \/ \E p \in 0..MaxId : Get(p)
  \/ \E b \in Bodies : Post(b, MaxId, MaxPending)
  \/ \E m \in inflight : PreSave(m)
  \/ \E m \in inflight : InsertApply(m)
  \/ \E p \in 0..MaxId, b \in Bodies : Put(p, b, MaxPending)
  \/ \E m \in inflight : PutApply(m)
  \/ \E p \in 0..MaxId : Delete(p)

SpecInput == Init /\ [][NextInput]_vars


(* ------------------------- the claims' vocabulary ---------------------- *)
\* a field rule of the specification fails
FieldRuleFails(b) ==
  \/ Trim(b.title) = <<>> \/ Len(Trim(b.title)) > MaxTitle
  \/ Trim(b.content) = <<>>
  \/ Trim(b.author) = <<>> \/ Len(Trim(b.author)) > MaxAuthor

\* tags is absent or a sequence of text values
TextTags(g) ==
  \/ g.kind = "absent"
  \/ g.kind = "array" /\ \A i \in 1..Len(g.items) : g.items[i].k = "str"

ValidBody(b) == ~FieldRuleFails(b) /\ TextTags(b.tags)

FieldsOf(d) == [title |-> d.title, content |-> d.content, author |-> d.author,
                tags |-> d.tags]

\* the values a request supplies, as they are
Supplied(b) ==
  [title |-> b.title, content |-> b.content, author |-> b.author,
   tags |-> [i \in 1..Len(b.tags.items) |-> b.tags.items[i].v]]

\* the values a request supplies, each text trimmed
Trimmed(b) ==
  [title |-> Trim(b.title), content |-> Trim(b.content), author |-> Trim(b.author),
   tags |-> [i \in 1..Len(b.tags.items) |-> Trim(b.tags.items[i].v)]]

Range(s) == {s[i] : i \in DOMAIN s}

(* -------------------------------- C1 ----------------------------------- *)
\* C1: a create or update whose title, content or author breaks a field rule
\* is answered 400 "Validation failed"; the step neither changes the stored
\* documents nor starts a save or a storage command, whatever the identifier.
C1_RejectedBeforeStorage ==
  (resp.op \in {"post", "put"} /\ FieldRuleFails(resp.body))
    => /\ resp.status = 400
       /\ resp.msg = "Validation failed"
       /\ ~resp.wrote
       /\ ~resp.issued

C1_Witness ==
  /\ resp.op = "put" /\ FieldRuleFails(resp.body)
  /\ resp.prev # NoDoc /\ resp.status = 400

(* -------------------------------- C2 ----------------------------------- *)
\* C2: get, delete, and update with a valid body: a malformed identifier is
\* answered 400 "Invalid blog ID", a well-formed identifier matching no
\* stored document 404, and neither changes the stored documents.
C2_IdentifierErrors ==
  (resp.op \in {"get", "delete"} \/ (resp.op = "put" /\ ValidBody(resp.body)))
    => /\ ~IsObjectId(resp.id)
            => resp.status = 400 /\ resp.msg = "Invalid blog ID" /\ ~resp.wrote
       /\ (IsObjectId(resp.id) /\ resp.prev = NoDoc)
            => resp.status = 404 /\ ~resp.wrote

C2_Witness ==
  /\ resp.op = "put" /\ ValidBody(resp.body) /\ resp.status = 404
  /\ IsObjectId(resp.id) /\ resp.id \in deleted

(* -------------------------------- C3 ----------------------------------- *)
\* C3 as claimed: the entity a successful create returns has createdAt
\* equal to updatedAt.
C3_CreatedEqualsUpdated ==
  (resp.op = "post" /\ resp.status = 201) => resp.data.createdAt = resp.data.updatedAt

\* C3 as amended: the entity a successful create returns is the stored one,
\* its createdAt is not after its updatedAt, and updatedAt is a reading of
\* the clock no later than now.
C3_CreatedNotAfterUpdated ==
  (resp.op = "post" /\ resp.status = 201)
    => /\ resp.data \in blogs
       /\ resp.data.createdAt <= resp.data.updatedAt
       /\ resp.data.updatedAt <= clock

C3_Witness ==
  /\ resp.op = "post" /\ resp.status = 201
  /\ resp.data.createdAt < resp.data.updatedAt

(* -------------------------------- C4 ----------------------------------- *)
\* C4 as claimed: a successful update keeps id and createdAt and makes
\* updatedAt strictly greater than it was.
C4_UpdatedAtStrictlyIncreases ==
  (resp.op = "put" /\ resp.status = 200)
    => /\ resp.data.id = resp.prev.id
       /\ resp.data.createdAt = resp.prev.createdAt
       /\ resp.data.updatedAt > resp.prev.updatedAt

\* C4 as amended: a successful update keeps the id and createdAt of the
\* document it matched and sets updatedAt to the clock reading its
\* pre("findOneAndUpdate") hook took when the update was issued.
C4_UpdatedAtIsIssueTime ==
  [][(resp'.op = "put" /\ resp'.status = 200)
       => /\ resp'.prev \in blogs
          /\ resp'.data \in blogs'
          /\ resp'.data.id = resp'.prev.id
          /\ resp'.data.createdAt = resp'.prev.createdAt
          /\ \E m \in inflight \ inflight' :
               /\ m.op = "update" /\ m.id = resp'.data.id
               /\ resp'.data.updatedAt = m.set.updatedAt
               /\ m.set.updatedAt <= clock]_vars

C4_Witness ==
  /\ resp.op = "put" /\ resp.status = 200
  /\ resp.data.updatedAt < resp.prev.updatedAt

(* -------------------------------- C5 ----------------------------------- *)
\* C5: every stored entity has updatedAt >= createdAt.
C5_UpdatedNotBeforeCreated ==
  \A d \in blogs : d.updatedAt >= d.createdAt

(* -------------------------------- C6 ----------------------------------- *)
\* the listing answers 200 with exactly the stored entities, their number
\* as count, in createdAt order, newest first
ListOK ==
  resp.op = "list"
    => /\ resp.status = 200
       /\ Range(resp.list) = blogs
       /\ Len(resp.list) = Cardinality(blogs)
       /\ resp.count = Cardinality(blogs)
       /\ \A i, j \in DOMAIN resp.list :
            i < j => resp.list[i].createdAt >= resp.list[j].createdAt

\* the entities of `old` that satisfy `among` pairwise keep their order in `new`
SamePositions(old, new, among(_, _)) ==
  \A i, j \in DOMAIN old, k, l \in DOMAIN new :
    (i < j /\ among(old[i], old[j]) /\ old[i].id = new[k].id /\ old[j].id = new[l].id)
      => k < l

AnyPair(x, y) == TRUE
DistinctCreatedAt(x, y) == x.createdAt # y.createdAt

\* C6 as claimed: the listing returns exactly the stored entities, newest
\* first, and when updates and nothing else were applied between two
\* listings every entity keeps its position relative to the others.
C6_ListStable ==
  [][ListOK' /\ (listed.updated
                   => SamePositions(listed.order, listed'.order, AnyPair))]_vars

\* C6 as amended: the same, but positions are kept only between entities
\* whose createdAt differ; the order among equal createdAt is not fixed.
C6_ListSorted ==
  [][ListOK' /\ SamePositions(listed.order, listed'.order, DistinctCreatedAt)]_vars

C6_Witness ==
  /\ resp.op = "list" /\ Len(resp.list) = 2
  /\ resp.list[1].createdAt > resp.list[2].createdAt
  /\ origin[resp.list[2].id].kind = "put"

(* -------------------------------- C7 ----------------------------------- *)
\* C7: deleting a stored id answers 200; from then on no entity with that
\* id is stored or being saved, and every get, delete, or update with a
\* valid body on it answers 404.
C7_DeletedStaysDeleted ==
  /\ deleted \cap Ids(blogs) = {}
  /\ \A m \in inflight : m.op \in {"save", "insert"} => m.id \notin deleted
  /\ (resp.op = "delete" /\ resp.prev # NoDoc)
       => resp.status = 200 /\ resp.id \in deleted
  /\ ( /\ resp.op \in {"get", "delete"} \/ (resp.op = "put" /\ ValidBody(resp.body))
       /\ resp.id \in deleted
       /\ ~(resp.op = "delete" /\ resp.prev # NoDoc) )
       => resp.status = 404

C7_Witness ==
  /\ resp.op = "delete" /\ resp.status = 404
  /\ resp.id \in deleted

(* -------------------------------- C8 ----------------------------------- *)
\* C8 as claimed: fetching an entity that a valid create made and nothing
\* updated or deleted since answers 200 with title, content, author and
\* tags identical to the values supplied (tags empty when omitted).
C8_RoundTripIdentical ==
  (resp.op = "get" /\ IsObjectId(resp.id) /\ origin[resp.id].kind = "post"
     /\ ValidBody(origin[resp.id].body))
    => /\ resp.status = 200
       /\ FieldsOf(resp.data) = Supplied(origin[resp.id].body)

\* C8 as amended: it answers 200 with the supplied title, content, author
\* and each tag trimmed of surrounding whitespace (tags empty when omitted).
C8_RoundTripTrimmed ==
  (resp.op = "get" /\ IsObjectId(resp.id) /\ origin[resp.id].kind = "post"
     /\ ValidBody(origin[resp.id].body))
    => /\ resp.status = 200
       /\ FieldsOf(resp.data) = Trimmed(origin[resp.id].body)

C8_Witness ==
  /\ resp.op = "get" /\ resp.status = 200
  /\ origin[resp.id] = [kind |-> "post", body |-> Padded]

(* -------------------------------- C9 ----------------------------------- *)
\* C9: a create or update whose tags is present and is not a sequence of
\* text values is answered 400 "Validation failed" before storage is
\* touched.
C9_BadTagsRejected ==
  (resp.op \in {"post", "put"} /\ ~TextTags(resp.body.tags))
    => /\ resp.status = 400
       /\ resp.msg = "Validation failed"
       /\ ~resp.wrote
       /\ ~resp.issued

(* -------------------------------- C10 ---------------------------------- *)
\* C10: with updates interleaved, an update with a valid body answers 200
\* with its own complete field set when its id is stored as the storage
\* layer applies it, and 404 leaving no entity otherwise; every stored
\* entity an update was applied to holds exactly the field set of the
\* update applied last.
C10_LastWriteWinsWhole ==
  /\ \A d \in blogs :
       origin[d.id].kind = "put" => FieldsOf(d) = Trimmed(origin[d.id].body)
  /\ (resp.op = "put" /\ ValidBody(resp.body) /\ IsObjectId(resp.id))
       => IF resp.prev # NoDoc
          THEN /\ resp.status = 200
               /\ resp.data \in blogs
               /\ FieldsOf(resp.data) = Trimmed(resp.body)
          ELSE /\ resp.status = 404
               /\ resp.id \notin Ids(blogs)

C10_Witness ==
  /\ resp.op = "put" /\ resp.status = 200
  /\ \E m \in inflight :
       m.op = "update" /\ m.id = resp.id /\ m.body # resp.body

=============================================================================
